---- MODULE Spec2Model ----
(***************************************************************************)
(* Model of drlx/data/configs.py: the method registry, the ConfigClass     *)
(* capability, the recursive merge and DRLXConfig.to_dict / from_dict /    *)
(* update.                                                                 *)
(*                                                                         *)
(* Python values are tagged records.  A str is a sequence of symbols, each  *)
(* one character or a run of lower-case characters without a "." (so that  *)
(* lower() and split(".") are computed), a dict is an insertion-ordered    *)
(* sequence of key/value items, and an instance of a config class is its   *)
(* class together with its __dict__.                                       *)
(***************************************************************************)
EXTENDS Integers, Sequences, FiniteSets, TLC

VARIABLES METHODS, moduleAttrs, regLog, lastGet, call

vars == <<METHODS, moduleAttrs, regLog, lastGet, call>>

(***************************************************************************)
(* Bounds of the model.                                                    *)
(***************************************************************************)
\* Largest number of register_method calls made after import.
MaxRegs == 2
\* Largest number of entries of an overrides mapping.
MaxItems == 2

(***************************************************************************)
(* Python values.                                                          *)
(***************************************************************************)
None == [t |-> "none"]

IntVal(n) == [t |-> "int", i |-> n]

\* A float literal, kept as the ratio num/den.
FloatVal(n, d) == [t |-> "float", num |-> n, den |-> d]

BoolVal(b) == [t |-> "bool", b |-> b]

StrVal(s) == [t |-> "str", s |-> s]

Dict(items) == [t |-> "dict", items |-> items]

EmptyDict == Dict(<<>>)

\* An instance of a config class: obj.__dict__ is d (a dict value).
Obj(cls, d) == [t |-> "obj", cls |-> cls, d |-> d]

Item(k, v) == [k |-> k, v |-> v]

IsDict(x) == x.t = "dict"

\* The outcome of a call: a returned value, or a raised exception.
Return(v) == [ok |-> TRUE, err |-> "", key |-> <<>>, val |-> v]

Raise(e) == [ok |-> FALSE, err |-> e, key |-> <<>>, val |-> None]

RaiseKey(e, k) == [ok |-> FALSE, err |-> e, key |-> k, val |-> None]

(***************************************************************************)
(* dict operations (keys are strings, i.e. sequences of characters).       *)
(***************************************************************************)
Has(d, k) == \E i \in 1..Len(d.items) : d.items[i].k = k

IndexOf(d, k) == CHOOSE i \in 1..Len(d.items) : d.items[i].k = k

Get(d, k) == d.items[IndexOf(d, k)].v

\* d[k] = v: an existing key keeps its position, a new key is appended.
Put(d, k, v) ==
    IF Has(d, k)
    THEN Dict([d.items EXCEPT ![IndexOf(d, k)] = Item(k, v)])
    ELSE Dict(Append(d.items, Item(k, v)))

KeySet(d) == {d.items[i].k : i \in 1..Len(d.items)}

(***************************************************************************)
(* str operations.                                                         *)
(***************************************************************************)
UpperChars ==
    <<"A", "B", "C", "D", "E", "F", "G", "H", "I", "J", "K", "L", "M",
      "N", "O", "P", "Q", "R", "S", "T", "U", "V", "W", "X", "Y", "Z">>

LowerChars ==
    <<"a", "b", "c", "d", "e", "f", "g", "h", "i", "j", "k", "l", "m",
      "n", "o", "p", "q", "r", "s", "t", "u", "v", "w", "x", "y", "z">>

LowerChar(c) ==
    IF \E i \in 1..Len(UpperChars) : UpperChars[i] = c
    THEN LowerChars[CHOOSE i \in 1..Len(UpperChars) : UpperChars[i] = c]
    ELSE c

\* str.lower()
lower(s) == [i \in 1..Len(s) |-> LowerChar(s[i])]

RECURSIVE SplitFrom(_, _, _)
SplitFrom(s, cur, acc) ==
    IF s = <<>> THEN Append(acc, cur)
    ELSE IF Head(s) = "."
         THEN SplitFrom(Tail(s), <<>>, Append(acc, cur))
         ELSE SplitFrom(Tail(s), Append(cur, Head(s)), acc)

\* A split that cuts only at the first delimiter.
RECURSIVE SplitFirstOnly(_)
SplitFirstOnly(s) ==
    IF s = <<>> THEN <<(<<>>)>>
    ELSE IF Head(s) = "."
         THEN <<(<<>>), Tail(s)>>
         ELSE LET r == SplitFirstOnly(Tail(s))
              IN  [r EXCEPT ![1] = <<Head(s)>> \o r[1]]

\* name.split("."): the segments between the delimiters, empty ones kept.
split(s) == SplitFrom(s, <<>>, <<>>)

\* k in s for two strings: s contains k as a substring.
Substring(k, s) ==
    \E i \in 0..(Len(s) - Len(k)) : SubSeq(s, i + 1, i + Len(k)) = k

(***************************************************************************)
(* The method registry.                                                    *)
(***************************************************************************)
MethodConfigName ==
    <<"M", "e", "t", "h", "o", "d", "C", "o", "n", "f", "i", "g">>

DDPOConfigName ==
    <<"D", "D", "P", "O", "C", "o", "n", "f", "i", "g">>

MethodClasses == {"MethodConfig", "DDPOConfig"}

\* cls.__name__
ClassName(cls) ==
    IF cls = "MethodConfig" THEN MethodConfigName ELSE DDPOConfigName

\* register_class(cls, name): writes the registry and the module attribute.
register_class(reg, attrs, cls, name) ==
    [reg   |-> [n \in DOMAIN reg \cup {name} |->
                   IF n = name THEN cls ELSE reg[n]],
     attrs |-> [n \in DOMAIN attrs \cup {name} |->
                   IF n = name THEN cls ELSE attrs[n]]]

\* A registration that keeps the name as it was written.
register_method_NoLower(reg, attrs, name, cls) ==
    IF name.t = "str"
    THEN register_class(reg, attrs, cls, name.s)
    ELSE register_class(reg, attrs, name.cls, ClassName(name.cls))

\* register_method(name)(cls) for a str name; register_method(cls) when the
\* argument is the class itself (then cls is that class).
register_method(reg, attrs, name, cls) ==
    IF name.t = "str"
    THEN register_class(reg, attrs, cls, lower(name.s))
    ELSE register_class(reg, attrs, name.cls, lower(ClassName(name.cls)))

\* A class object passed where a name is expected.
ClassArg(cls) == [t |-> "class", cls |-> cls]

\* get_method(name)
get_method(reg, name) ==
    LET n == lower(name)
    IN  IF n \in DOMAIN reg
        THEN Return(ClassArg(reg[n]))
        ELSE Raise("Exception")

\* The registry once the module is imported: only MethodConfig carries the
\* @register_method decorator.
EmptyMap == [n \in {} |-> "MethodConfig"]

ImportedModule ==
    register_method(EmptyMap, EmptyMap, ClassArg("MethodConfig"), "MethodConfig")

(***************************************************************************)
(* The config classes: their declared fields, in order, with defaults.     *)
(***************************************************************************)
\* A one-symbol string, used for field and section names.
S(w) == <<w>>

Required(n) == [name |-> S(n), req |-> TRUE, def |-> None]

Default(n, v) == [name |-> S(n), req |-> FALSE, def |-> v]

Fields(cls) ==
    CASE cls = "MethodConfig" -> <<Required("name")>>
      [] cls = "DDPOConfig" ->
           <<Required("name"),
             Default("clip_advantages", FloatVal(1, 1)),
             Default("clip_ratio", FloatVal(1, 5)),
             Default("num_inner_epochs", IntVal(1)),
             Default("sample_batch_size", IntVal(32))>>
      [] cls = "PerPromptStatTrackerConfig" ->
           <<Default("buffer_size", IntVal(32)),
             Default("min_count", IntVal(16))>>
      [] cls = "RewardModelConfig" ->
           <<Required("name"),
             Default("kwargs", EmptyDict),
             Default("model_path", None)>>
      [] cls = "TrainConfig" ->
           <<Default("batch_size", IntVal(4)),
             Default("num_epochs", IntVal(50)),
             Default("num_samples_per_epoch", IntVal(128)),
             Default("grad_clip", FloatVal(1, 1)),
             Default("checkpoint_interval", IntVal(10)),
             Default("checkpoint_path", StrVal(S("checkpoints"))),
             Default("seed", IntVal(0))>>
      [] cls = "LoggingConfig" ->
           <<Default("log_with", StrVal(S("wandb"))),
             Default("log_every", IntVal(10)),
             Default("run_name", None),
             Default("wandb_entity", None),
             Default("wandb_project", None)>>
      [] cls = "OptimizerConfig" ->
           <<Required("name"), Default("kwargs", EmptyDict)>>
      [] cls = "SchedulerConfig" ->
           <<Required("name"), Default("kwargs", EmptyDict)>>
      [] cls = "ModelConfig" ->
           <<Required("model_path"),
             Required("model_arch_type"),
             Default("peft_config", EmptyDict)>>
      [] cls = "SamplerConfig" ->
           <<Default("mode", StrVal(S("v"))),
             Default("guidance_scale", FloatVal(5, 1)),
             Default("sigma_data", FloatVal(1, 2)),
             Default("num_inference_steps", IntVal(50)),
             Default("eta", IntVal(1)),
             Default("device", StrVal(S("cuda"))),
             Default("postprocess", BoolVal(FALSE))>>
      [] cls = "DRLXConfig" ->
           <<Required("model"), Required("optimizer"), Required("scheduler"),
             Required("train"), Required("logging"), Required("reward_model"),
             Required("method"), Default("per_prompt_stat_tracker", None)>>

FieldNames(cls) == {Fields(cls)[i].name : i \in 1..Len(Fields(cls))}

\* cls(**cfg): the generated dataclass __init__.
Construct(cls, cfg) ==
    LET F == Fields(cls)
    IN  IF ~IsDict(cfg) THEN Raise("TypeError")
        ELSE IF \E k \in KeySet(cfg) : k \notin FieldNames(cls)
             THEN Raise("TypeError")
        ELSE IF \E i \in 1..Len(F) : F[i].req /\ ~Has(cfg, F[i].name)
             THEN Raise("TypeError")
        ELSE Return(Obj(cls, Dict([i \in 1..Len(F) |->
                 Item(F[i].name,
                      IF Has(cfg, F[i].name) THEN Get(cfg, F[i].name)
                      ELSE F[i].def)])))

\* ConfigClass.from_dict is a staticmethod declared with the two parameters
\* (cls, cfg); args are the positional arguments of the call.
ConfigClass_from_dict(args) ==
    IF Len(args) # 2 THEN Raise("TypeError")
    ELSE Construct(args[1].cls, args[2])

\* dataclasses.asdict: instances and dicts are copied recursively.
RECURSIVE asdict(_)
asdict(x) ==
    CASE x.t = "obj" ->
           Dict([i \in 1..Len(x.d.items) |->
                   Item(x.d.items[i].k, asdict(x.d.items[i].v))])
      [] x.t = "dict" ->
           Dict([i \in 1..Len(x.items) |->
                   Item(x.items[i].k, asdict(x.items[i].v))])
      [] OTHER -> x

\* ConfigClass.to_dict
ConfigClass_to_dict(self) == Return(asdict(self))

(***************************************************************************)
(* merge(base, update, updated).  base is changed in place, so the result  *)
(* carries what base holds when the call returns or raises.                *)
(***************************************************************************)
MergeState(b, u, e) == [base |-> b, updated |-> u, err |-> e]

\* The loop of merge from the i-th item of base on.
RECURSIVE MergeFrom(_, _, _, _)
MergeFrom(base, update, updated, i) ==
    IF i > Len(base.items) THEN MergeState(base, updated, "")
    ELSE
    LET k == base.items[i].k
        v == base.items[i].v
    IN  CASE update.t = "dict" ->
               IF ~Has(update, k)
               THEN MergeFrom(base, update, updated, i + 1)
               ELSE IF IsDict(v)
               THEN LET r == MergeFrom(v, Get(update, k), updated, 1)
                    IN  IF r.err # ""
                        THEN MergeState(Put(base, k, r.base), r.updated, r.err)
                        ELSE MergeFrom(Put(base, k, r.base), update,
                                       r.updated \cup {k}, i + 1)
               ELSE MergeFrom(Put(base, k, Get(update, k)), update,
                              updated \cup {k}, i + 1)
          [] update.t = "str" ->
               \* k in update is a substring test; update[k] then raises.
               IF Substring(k, update.s)
               THEN MergeState(base, updated, "TypeError")
               ELSE MergeFrom(base, update, updated, i + 1)
          [] OTHER -> MergeState(base, updated, "TypeError")

merge(base, update, updated) == MergeFrom(base, update, updated, 1)

(***************************************************************************)
(* DRLXConfig.                                                             *)
(***************************************************************************)
\* x[k] for a str key k.
Subscript(x, k) ==
    IF IsDict(x)
    THEN IF Has(x, k) THEN Return(Get(x, k)) ELSE RaiseKey("KeyError", k)
    ELSE Raise("TypeError")

\* The sections in the order to_dict reads them and from_dict builds them.
Sections ==
    <<[name |-> S("method"), cls |-> "MethodConfig"],
      [name |-> S("model"), cls |-> "ModelConfig"],
      [name |-> S("optimizer"), cls |-> "OptimizerConfig"],
      [name |-> S("scheduler"), cls |-> "SchedulerConfig"],
      [name |-> S("train"), cls |-> "TrainConfig"],
      [name |-> S("logging"), cls |-> "LoggingConfig"],
      [name |-> S("reward_model"), cls |-> "RewardModelConfig"],
      [name |-> S("per_prompt_stat_tracker"),
       cls |-> "PerPromptStatTrackerConfig"]>>

\* DRLXConfig.to_dict from the i-th section on: each entry is the section
\* instance's own __dict__ (not a copy); a section that is no instance has
\* no __dict__.
RECURSIVE ToDictFrom(_, _, _)
ToDictFrom(self, i, data) ==
    IF i > Len(Sections) THEN Return(data)
    ELSE LET x == Get(self.d, Sections[i].name)
         IN  IF x.t = "obj"
             THEN ToDictFrom(self, i + 1, Put(data, Sections[i].name, x.d))
             ELSE Raise("AttributeError")

DRLXConfig_to_dict(self) == ToDictFrom(self, 1, EmptyDict)

\* The keyword arguments of cls(...) in from_dict, evaluated in order from
\* the i-th on; the method class comes from the registry.
RECURSIVE FromDictFrom(_, _, _, _)
FromDictFrom(reg, config, i, kwargs) ==
    IF i > Len(Sections) THEN Construct("DRLXConfig", kwargs)
    ELSE
    LET sec == Subscript(config, Sections[i].name)
        nm  == IF sec.ok THEN Subscript(sec.val, S("name")) ELSE sec
        gm  == IF ~nm.ok THEN nm
               ELSE IF nm.val.t # "str" THEN Raise("AttributeError")
               ELSE get_method(reg, nm.val.s)
        built == IF i = 1
                 THEN IF gm.ok THEN ConfigClass_from_dict(<<sec.val>>) ELSE gm
                 ELSE IF sec.ok THEN ConfigClass_from_dict(<<sec.val>>) ELSE sec
    IN  IF built.ok
        THEN FromDictFrom(reg, config, i + 1,
                          Put(kwargs, Sections[i].name, built.val))
        ELSE built

DRLXConfig_from_dict(reg, config) == FromDictFrom(reg, config, 1, EmptyDict)

\* d = update.setdefault(layers[0], {}); ...; d[var] = value, along path
\* (the layers followed by var), starting in the dict d.
RECURSIVE SetPath(_, _, _)
SetPath(d, path, value) ==
    IF Len(path) = 1
    THEN IF IsDict(d)
         THEN [d |-> Put(d, path[1], value), err |-> ""]
         ELSE [d |-> d, err |-> "TypeError"]
    ELSE IF ~IsDict(d) THEN [d |-> d, err |-> "AttributeError"]
    ELSE LET child == IF Has(d, Head(path)) THEN Get(d, Head(path))
                      ELSE EmptyDict
             r == SetPath(child, Tail(path), value)
         IN  IF r.err # "" THEN [d |-> d, err |-> r.err]
             ELSE [d |-> Put(d, Head(path), r.d), err |-> ""]

\* The unflattening loop of update from the i-th item of config on.  shared
\* holds the keys of update whose value is the caller's own nested mapping.
RECURSIVE UnflattenFrom(_, _, _, _)
UnflattenFrom(config, i, update, shared) ==
    IF i > Len(config.items)
    THEN [update |-> update, shared |-> shared, err |-> ""]
    ELSE
    LET name  == config.items[i].k
        value == config.items[i].v
        parts == split(name)
    IN  IF IsDict(value)
        THEN UnflattenFrom(config, i + 1, Put(update, name, value),
                           shared \cup {name})
        ELSE IF Len(parts) > 1
        THEN LET r == SetPath(update, parts, value)
             IN  IF r.err # ""
                 THEN [update |-> update, shared |-> shared, err |-> r.err]
                 ELSE UnflattenFrom(config, i + 1, r.d, shared)
        ELSE UnflattenFrom(config, i + 1, update, shared)

\* The caller's config mapping after the loop: a nested mapping that update
\* shares has whatever the loop wrote into it.
ConfigAfter(config, u) ==
    Dict([i \in 1..Len(config.items) |->
            LET k == config.items[i].k
            IN  Item(k, IF k \in u.shared THEN Get(u.update, k)
                        ELSE config.items[i].v)])

\* The caller's base after merge ran on data: a raw mapping is data itself,
\* a tree's sections own the dicts that data holds.
BaseAfter(baseconfig, data) ==
    IF IsDict(baseconfig) THEN data
    ELSE Obj(baseconfig.cls,
             Dict([i \in 1..Len(baseconfig.d.items) |->
                LET k == baseconfig.d.items[i].k
                    v == baseconfig.d.items[i].v
                IN  Item(k, IF v.t = "obj" /\ Has(data, k)
                            THEN Obj(v.cls, Get(data, k)) ELSE v)]))

\* for param in update: the first key that merge did not record.
Unrecorded(update, updated) ==
    {i \in 1..Len(update.items) : update.items[i].k \notin updated}

FirstUnrecorded(update, updated) ==
    update.items[CHOOSE i \in Unrecorded(update, updated) :
                    \A j \in Unrecorded(update, updated) : i <= j].k

UpdateResult(res, base, config, unflat, touched) ==
    [res |-> res, base |-> base, config |-> config,
     unflat |-> unflat, touched |-> touched]

\* DRLXConfig.update(baseconfig, config): the outcome, and what the caller's
\* baseconfig and config hold afterwards.
DRLXConfig_update(reg, baseconfig, config) ==
    LET u    == UnflattenFrom(config, 1, EmptyDict, {})
        cfg2 == ConfigAfter(config, u)
        td   == IF IsDict(baseconfig) THEN Return(baseconfig)
                ELSE DRLXConfig_to_dict(baseconfig)
        m    == merge(td.val, u.update, {})
        b2   == BaseAfter(baseconfig, m.base)
    IN  IF u.err # ""
        THEN UpdateResult(Raise(u.err), baseconfig, cfg2, u.update, {})
        ELSE IF ~td.ok
        THEN UpdateResult(td, baseconfig, cfg2, u.update, {})
        ELSE IF m.err # ""
        THEN UpdateResult(Raise(m.err), b2, cfg2, u.update, m.updated)
        ELSE IF Unrecorded(u.update, m.updated) # {}
        THEN UpdateResult(
                 RaiseKey("ValueError", FirstUnrecorded(u.update, m.updated)),
                 b2, cfg2, u.update, m.updated)
        ELSE UpdateResult(DRLXConfig_from_dict(reg, m.base),
                          b2, cfg2, u.update, m.updated)

(***************************************************************************)
(* Inputs.                                                                 *)
(***************************************************************************)
ddpo == <<"d", "d", "p", "o">>

\* Names given to register_method(name).
Names ==
    {ddpo, <<"D", "D", "P", "O">>, <<"D", "d", "p", "o">>,
     <<"p", "p", "o">>, <<"P", "p", "o">>}

\* Names asked of get_method.
QueryNames ==
    Names \cup {MethodConfigName, lower(MethodConfigName), DDPOConfigName,
                <<"d", "D", "p", "O">>, <<"p", "P", "O">>, <<"t", "r", "p", "o">>}

\* A raw mapping as the file codec yields it.  tracker says what the
\* per_prompt_stat_tracker key holds: "absent", "null" or "present".
RawMapping(mname, tracker) ==
    Dict(<<
      Item(S("model"), Dict(<<Item(S("model_path"), StrVal(S("sd"))),
                              Item(S("model_arch_type"), StrVal(S("ldm"))),
                              Item(S("peft_config"), EmptyDict)>>)),
      Item(S("optimizer"), Dict(<<Item(S("name"), StrVal(S("adamw"))),
                                  Item(S("kwargs"),
                                       Dict(<<Item(S("lr"), IntVal(1))>>))>>)),
      Item(S("scheduler"), Dict(<<Item(S("name"), StrVal(S("cosine"))),
                                  Item(S("kwargs"), EmptyDict)>>)),
      Item(S("train"), Dict(<<Item(S("batch_size"), IntVal(4)),
                              Item(S("seed"), IntVal(0))>>)),
      Item(S("logging"), Dict(<<Item(S("log_every"), IntVal(10))>>)),
      Item(S("reward_model"), Dict(<<Item(S("name"), StrVal(S("aesthetic")))>>)),
      Item(S("method"), Dict(<<Item(S("name"), StrVal(mname))>>))>>
      \o (CASE tracker = "absent" -> <<>>
            [] tracker = "null" ->
                 <<Item(S("per_prompt_stat_tracker"), None)>>
            [] OTHER ->
                 <<Item(S("per_prompt_stat_tracker"),
                        Dict(<<Item(S("buffer_size"), IntVal(32)),
                               Item(S("min_count"), IntVal(16))>>))>>))

\* The section class of a raw mapping's key.
SectionClass(k) ==
    IF k = S("method") THEN "DDPOConfig"
    ELSE Sections[CHOOSE i \in 1..Len(Sections) : Sections[i].name = k].cls

\* A tree built with the constructors, DRLXConfig(model=ModelConfig(...),
\* ...), from the values of a raw mapping.
ConfigTree(raw) ==
    Construct("DRLXConfig",
        Dict([i \in 1..Len(raw.items) |->
            Item(raw.items[i].k,
                 IF IsDict(raw.items[i].v)
                 THEN Construct(SectionClass(raw.items[i].k),
                                raw.items[i].v).val
                 ELSE raw.items[i].v)])).val

MethodNames == {ddpo, MethodConfigName}

BaseSet ==
    {RawMapping(n, t) : n \in MethodNames, t \in {"absent", "null", "present"}}
    \cup {ConfigTree(RawMapping(ddpo, t)) : t \in {"absent", "present"}}

\* "k1.k2. ... .kn"
RECURSIVE Dotted(_)
Dotted(path) ==
    IF Len(path) = 1 THEN path[1]
    ELSE path[1] \o <<".">> \o Dotted(Tail(path))

\* {k1: {k2: ... {kn: v}}} without its outermost key.
RECURSIVE NestedValue(_, _)
NestedValue(path, v) ==
    IF path = <<>> THEN v
    ELSE Dict(<<Item(Head(path), NestedValue(Tail(path), v))>>)

DottedItem(path, v) == Item(Dotted(path), v)

NestedItem(path, v) == Item(path[1], NestedValue(Tail(path), v))

\* The paths overrides address: fields that exist, fields and sections that
\* do not, and a top-level key that only exists deeper in the mapping.
OverridePaths ==
    {<<S("train"), S("seed")>>,
     <<S("train"), S("batch_size")>>,
     <<S("train"), S("no_such_field")>>,
     <<S("nonexistent_key")>>,
     <<S("nonexistent_key"), S("a")>>,
     <<S("seed"), S("x")>>,
     <<S("optimizer"), S("kwargs"), S("lr")>>,
     <<S("model"), S("peft_config")>>,
     <<S("train"), S("seed"), S("x")>>}

OverrideValues == {IntVal(7)}

OverrideItems ==
    {DottedItem(p, v) : p \in OverridePaths, v \in OverrideValues}
    \cup {NestedItem(p, v) : p \in OverridePaths, v \in OverrideValues}

\* The overrides mappings: up to MaxItems entries with distinct keys.
OverrideSet ==
    {Dict(items) : items \in
        {q \in UNION {[1..n -> OverrideItems] : n \in 1..MaxItems} :
            \A i, j \in 1..Len(q) : i # j => q[i].k # q[j].k}}

LeafClasses ==
    {"MethodConfig", "DDPOConfig", "PerPromptStatTrackerConfig",
     "RewardModelConfig", "TrainConfig", "LoggingConfig", "OptimizerConfig",
     "SchedulerConfig", "ModelConfig", "SamplerConfig"}

\* The mapping with exactly the declared fields of cls, at their defaults
\* (a required field gets a name).
FullMapping(cls) ==
    Dict([i \in 1..Len(Fields(cls)) |->
            Item(Fields(cls)[i].name,
                 IF Fields(cls)[i].req THEN StrVal(S("sd"))
                 ELSE Fields(cls)[i].def)])

\* Mappings handed to a leaf class: all fields, the first field left out,
\* the first field changed, an undeclared key added.
LeafMappings(cls) ==
    {FullMapping(cls),
     Dict(Tail(FullMapping(cls).items)),
     Put(FullMapping(cls), Fields(cls)[1].name, IntVal(7)),
     Put(FullMapping(cls), S("no_such_field"), IntVal(7))}

(***************************************************************************)
(* State and actions.                                                      *)
(***************************************************************************)
LogEntry(name, cls) == [name |-> name, cls |-> cls]

NoGet == [name |-> <<>>, res |-> Raise(""), at |-> 0]

\* What the last call was given and what it left behind.  base and config
\* are the caller's objects; base0 and config0 their values at the call.
\* unflat and touched are what update passed to merge and what merge recorded;
\* cls and nargs are the class and the number of positional arguments of a
\* call on a leaf class.
Call(op, base0, config0, base, config, res, unflat, touched, cls, nargs) ==
    [op |-> op, base0 |-> base0, config0 |-> config0, base |-> base,
     config |-> config, res |-> res, unflat |-> unflat, touched |-> touched,
     cls |-> cls, nargs |-> nargs]

NoCall(base) ==
    Call("none", base, EmptyDict, base, EmptyDict, Raise(""), EmptyDict, {}, "", 0)

\* The module after import, and after a user also registered DDPOConfig.
RegistrySet ==
    {<<ImportedModule, <<LogEntry(MethodConfigName, "MethodConfig")>> >>,
     <<register_method(ImportedModule.reg, ImportedModule.attrs,
                       StrVal(ddpo), "DDPOConfig"),
       <<LogEntry(MethodConfigName, "MethodConfig"),
         LogEntry(ddpo, "DDPOConfig")>> >>}

Init ==
    /\ \E r \in RegistrySet :
          /\ METHODS = r[1].reg
          /\ moduleAttrs = r[1].attrs
          /\ regLog = r[2]
    /\ lastGet = NoGet
    /\ \E b \in BaseSet : call = NoCall(b)

\* DRLXConfig.update(base, overrides)
Update ==
    /\ call.op = "none"
    /\ \E ov \in OverrideSet :
          LET r == DRLXConfig_update(METHODS, call.base, ov)
          IN  call' = Call("update", call.base, ov, r.base, r.config, r.res,
                           r.unflat, r.touched, "", 0)
    /\ UNCHANGED <<METHODS, moduleAttrs, regLog, lastGet>>

\* merge(base, update, set()) on a raw mapping and an unflattened update.
Merge ==
    /\ call.op = "none"
    /\ IsDict(call.base)
    /\ \E ov \in OverrideSet :
          LET u == UnflattenFrom(ov, 1, EmptyDict, {})
              r == merge(call.base, u.update, {})
          IN  /\ u.err = ""
              /\ call' = Call("merge", call.base, u.update, r.base, u.update,
                              IF r.err = "" THEN Return(r.base)
                              ELSE Raise(r.err),
                              u.update, r.updated, "", 0)
    /\ UNCHANGED <<METHODS, moduleAttrs, regLog, lastGet>>

\* DRLXConfig.from_dict(config)
FromDict ==
    /\ call.op = "none"
    /\ IsDict(call.base)
    /\ call' = Call("from_dict", call.base, EmptyDict, call.base, EmptyDict,
                    DRLXConfig_from_dict(METHODS, call.base), EmptyDict, {}, "", 0)
    /\ UNCHANGED <<METHODS, moduleAttrs, regLog, lastGet>>

\* cfg.to_dict() on a tree
ToDict ==
    /\ call.op = "none"
    /\ ~IsDict(call.base)
    /\ call' = Call("to_dict", call.base, EmptyDict, call.base, EmptyDict,
                    DRLXConfig_to_dict(call.base), EmptyDict, {}, "", 0)
    /\ UNCHANGED <<METHODS, moduleAttrs, regLog, lastGet>>

\* T.from_dict(m) on a leaf class T (one positional argument), or
\* T.from_dict(T, m) (two).
LeafFromDict ==
    /\ call.op = "none"
    /\ \E cls \in LeafClasses : \E m \in LeafMappings(cls) : \E n \in {1, 2} :
          LET args == IF n = 1 THEN <<m>> ELSE <<ClassArg(cls), m>>
          IN  call' = Call("leaf_from_dict", m, EmptyDict, m, EmptyDict,
                           ConfigClass_from_dict(args), EmptyDict, {}, cls, n)
    /\ UNCHANGED <<METHODS, moduleAttrs, regLog, lastGet>>

\* x.to_dict() on an instance x of a leaf class
LeafToDict ==
    /\ call.op = "none"
    /\ \E cls \in LeafClasses : \E m \in LeafMappings(cls) :
          LET x == Construct(cls, m)
          IN  /\ x.ok
              /\ call' = Call("leaf_to_dict", x.val, EmptyDict, x.val,
                              EmptyDict, ConfigClass_to_dict(x.val),
                              EmptyDict, {}, cls, 0)
    /\ UNCHANGED <<METHODS, moduleAttrs, regLog, lastGet>>

Next == Update \/ Merge \/ FromDict \/ ToDict \/ LeafFromDict \/ LeafToDict

Spec == Init /\ [][Next]_vars

(***************************************************************************)
(* The registry on its own: registrations and lookups after import.        *)
(***************************************************************************)
InitRegistry ==
    /\ METHODS = ImportedModule.reg
    /\ moduleAttrs = ImportedModule.attrs
    /\ regLog = <<LogEntry(MethodConfigName, "MethodConfig")>>
    /\ lastGet = NoGet
    /\ call = NoCall(RawMapping(ddpo, "present"))

\* @register_method(name) on class cls
RegisterNamed ==
    /\ Len(regLog) <= MaxRegs
    /\ \E name \in Names : \E cls \in MethodClasses :
          LET r == register_method(METHODS, moduleAttrs, StrVal(name), cls)
          IN  /\ METHODS' = r.reg
              /\ moduleAttrs' = r.attrs
              /\ regLog' = Append(regLog, LogEntry(name, cls))
    /\ UNCHANGED <<lastGet, call>>

\* @register_method on class cls: the name comes from the class
RegisterClass ==
    /\ Len(regLog) <= MaxRegs
    /\ \E cls \in MethodClasses :
          LET r == register_method(METHODS, moduleAttrs, ClassArg(cls), cls)
          IN  /\ METHODS' = r.reg
              /\ moduleAttrs' = r.attrs
              /\ regLog' = Append(regLog, LogEntry(ClassName(cls), cls))
    /\ UNCHANGED <<lastGet, call>>

\* get_method(name)
GetMethod ==
    /\ \E name \in QueryNames :
          lastGet' = [name |-> name, res |-> get_method(METHODS, name),
                      at |-> Len(regLog)]
    /\ UNCHANGED <<METHODS, moduleAttrs, regLog, call>>

NextRegistry == RegisterNamed \/ RegisterClass \/ GetMethod

SpecRegistry == InitRegistry /\ [][NextRegistry]_vars

(***************************************************************************)
(* Properties.                                                             *)
(***************************************************************************)
\* The mapping a base stands for: a raw mapping itself, or the sections of
\* a tree that are instances.
BaseMapping(b) ==
    IF IsDict(b) THEN b
    ELSE LET idx == {i \in 1..Len(b.d.items) : b.d.items[i].v.t = "obj"}
             f[n \in 0..Len(b.d.items)] ==
                 IF n = 0 THEN <<>>
                 ELSE IF n \in idx
                      THEN Append(f[n - 1],
                                  Item(b.d.items[n].k, b.d.items[n].v.d))
                      ELSE f[n - 1]
         IN  Dict(f[Len(b.d.items)])

\* Every path k1, ..., kn to a key of a nested mapping.
RECURSIVE PathsOf(_)
PathsOf(d) ==
    UNION {{<<d.items[i].k>>} \cup
           (IF IsDict(d.items[i].v)
            THEN {<<d.items[i].k>> \o q : q \in PathsOf(d.items[i].v)}
            ELSE {}) : i \in 1..Len(d.items)}

RECURSIVE HasPath(_, _)
HasPath(d, path) ==
    \/ path = <<>>
    \/ /\ IsDict(d)
       /\ Has(d, Head(path))
       /\ HasPath(Get(d, Head(path)), Tail(path))

RECURSIVE GetPath(_, _)
GetPath(d, path) ==
    IF path = <<>> THEN d ELSE GetPath(Get(d, Head(path)), Tail(path))

\* Paths to the values of a nested mapping that are not mappings.
LeafPathsOf(d) == {q \in PathsOf(d) : ~IsDict(GetPath(d, q))}

HasDot(name) == \E i \in 1..Len(name) : name[i] = "."

ScalarValues == {IntVal(7), None, StrVal(S("sd"))}

\* What a caller of update observes: the result or failure, and its base.
Outcome(r) == <<r.res, r.base>>

\* C1: update never changes its base argument, whether it returns or raises.
C1_BaseNeverMutated ==
    call.op = "update" => call.base = call.base0

\* C2: overrides with a top-level key (no path notation) that is no key of
\* base make update fail with the validation error naming such a key.
C2_UnknownKeyRejected ==
    LET unknown == {k \in KeySet(call.config0) :
                       ~HasDot(k) /\ k \notin KeySet(BaseMapping(call.base0))}
    IN  (call.op = "update" /\ unknown # {})
        => (~call.res.ok /\ call.res.err = "ValueError"
                         /\ call.res.key \in unknown)

\* C3: for every existing path of the base and every scalar value, update
\* with the dotted key has the same outcome as update with the nested
\* mapping: for every base before a call, and for the update that was made
\* when its overrides were one dotted key of an existing path.
C3_DottedEqualsNested ==
    /\ call.op = "none" =>
          \A q \in PathsOf(BaseMapping(call.base)) : \A v \in ScalarValues :
              Outcome(DRLXConfig_update(METHODS, call.base,
                                        Dict(<<DottedItem(q, v)>>)))
              = Outcome(DRLXConfig_update(METHODS, call.base,
                                          Dict(<<NestedItem(q, v)>>)))
    /\ (call.op = "update" /\ Len(call.config0.items) = 1) =>
          \A q \in PathsOf(BaseMapping(call.base0)) :
              call.config0.items[1] = DottedItem(q, call.config0.items[1].v)
              => Outcome(call)
                 = Outcome(DRLXConfig_update(METHODS, call.base0,
                       Dict(<<NestedItem(q, call.config0.items[1].v)>>)))

\* An update with one dotted key of three segments ran, merge changed the
\* base, and the nested form leads to the same outcome.
C3_Witness ==
    LET q == <<S("optimizer"), S("kwargs"), S("lr")>>
    IN  /\ call.op = "update"
        /\ call.config0 = Dict(<<DottedItem(q, IntVal(7))>>)
        /\ HasPath(BaseMapping(call.base0), q)
        /\ call.base # call.base0
        /\ GetPath(BaseMapping(call.base), q) = IntVal(7)
        /\ Outcome(call) = Outcome(DRLXConfig_update(METHODS, call.base0,
                                   Dict(<<NestedItem(q, IntVal(7))>>)))

\* C4: T.from_dict(m) succeeds on a mapping m whose keys are exactly the
\* declared fields of the leaf class T, and to_dict gives m back; and
\* DRLXConfig.from_dict succeeds on the mapping of a tree.
C4_RoundTrip ==
    /\ (call.op = "leaf_from_dict" /\ call.nargs = 1
        /\ KeySet(call.base0) = FieldNames(call.cls))
       => (call.res.ok /\ asdict(call.res.val) = call.base0)
    /\ (call.op = "to_dict" /\ call.res.ok)
       => DRLXConfig_from_dict(METHODS, call.res.val).ok

\* Two characters that are the same letter in either case.
SameLetter(c, d) ==
    \/ c = d
    \/ \E i \in 1..Len(UpperChars) : {c, d} = {UpperChars[i], LowerChars[i]}

EqualIgnoringCase(a, b) ==
    Len(a) = Len(b) /\ \A i \in 1..Len(a) : SameLetter(a[i], b[i])

\* The class most recently registered under a name equal to n ignoring
\* case, or the unknown-method error.
LatestRegistered(n) ==
    LET hits == {i \in 1..Len(regLog) : EqualIgnoringCase(regLog[i].name, n)}
    IN  IF hits = {} THEN Raise("Exception")
        ELSE Return(ClassArg(regLog[CHOOSE i \in hits :
                                       \A j \in hits : j <= i].cls))

\* C5: get_method(n) returns the class most recently registered under a
\* name equal to n ignoring case, and fails when there is none; the last
\* lookup made since the last registration returned just that.
C5_RegistryLookup ==
    /\ \A n \in QueryNames : get_method(METHODS, n) = LatestRegistered(n)
    /\ lastGet.at = Len(regLog) => lastGet.res = LatestRegistered(lastGet.name)

\* A lookup returned the class of a later registration that overwrote an
\* earlier one under a differently written name, asked in a third writing.
C5_Witness ==
    /\ lastGet.at = Len(regLog)
    /\ lastGet.res.ok
    /\ \E i, j \in 1..Len(regLog) :
          /\ i < j
          /\ regLog[i].name # regLog[j].name
          /\ regLog[i].cls # regLog[j].cls
          /\ EqualIgnoringCase(regLog[i].name, regLog[j].name)
          /\ EqualIgnoringCase(lastGet.name, regLog[j].name)
          /\ lastGet.name \notin {regLog[i].name, regLog[j].name}
          /\ \A k \in (j + 1)..Len(regLog) :
                ~EqualIgnoringCase(regLog[k].name, lastGet.name)
          /\ lastGet.res.val = ClassArg(regLog[j].cls)

\* The mandatory sections of a raw mapping are present and well-formed and
\* its method is registered.
MandatoryWellFormed(raw) ==
    /\ \A i \in 1..(Len(Sections) - 1) :
          /\ Has(raw, Sections[i].name)
          /\ IsDict(Get(raw, Sections[i].name))
    /\ Has(Get(raw, S("method")), S("name"))
    /\ get_method(METHODS, Get(Get(raw, S("method")), S("name")).s).ok
    /\ \A i \in 2..(Len(Sections) - 1) :
          Construct(Sections[i].cls, Get(raw, Sections[i].name)).ok

TrackerMissing(raw) ==
    \/ ~Has(raw, S("per_prompt_stat_tracker"))
    \/ Get(raw, S("per_prompt_stat_tracker")) = None

\* C6: with per_prompt_stat_tracker absent or null, from_dict succeeds and
\* yields a tree whose per_prompt_stat_tracker is null, and to_dict and
\* update on a tree without it do not fail for its absence.
C6_TrackerOptional ==
    /\ (call.op = "from_dict" /\ MandatoryWellFormed(call.base0)
        /\ TrackerMissing(call.base0))
       => (call.res.ok
           /\ Get(call.res.val.d, S("per_prompt_stat_tracker")) = None)
    /\ (call.op \in {"to_dict", "update"} /\ ~IsDict(call.base0)
        /\ Get(call.base0.d, S("per_prompt_stat_tracker")) = None)
       => call.res.err # "AttributeError"

\* C7: on a valid tree, update with one dotted key of an existing leaf field
\* succeeds, and the returned tree has the value at that field and the
\* original values everywhere else.
C7_SingleFieldUpdate ==
    \A q \in LeafPathsOf(BaseMapping(call.base0)) : \A v \in OverrideValues :
        (/\ call.op = "update"
         /\ ~IsDict(call.base0)
         /\ \A i \in 1..Len(call.base0.d.items) :
               call.base0.d.items[i].v.t = "obj"
         /\ MandatoryWellFormed(BaseMapping(call.base0))
         /\ call.config0 = Dict(<<DottedItem(q, v)>>))
        => /\ call.res.ok
           /\ GetPath(asdict(call.res.val), q) = v
           /\ \A o \in LeafPathsOf(BaseMapping(call.base0)) \ {q} :
                 GetPath(asdict(call.res.val), o)
                 = GetPath(BaseMapping(call.base0), o)

\* C8: merge started with an empty touched set records only keys that are
\* top-level keys of both base and update; a key at the top level of update
\* only is neither recorded nor merged in, and keys of base only keep their
\* values.
C8_TouchedSound ==
    call.op = "merge" =>
        /\ call.touched \subseteq (KeySet(call.base0) \cap KeySet(call.config0))
        /\ \A k \in KeySet(call.config0) \ KeySet(call.base0) :
              k \notin call.touched /\ ~Has(call.base, k)
        /\ \A k \in KeySet(call.base0) \ KeySet(call.config0) :
              Get(call.base, k) = Get(call.base0, k)

\* C9: an override that addresses an existing subsection but a field that
\* is not in it makes update fail with the validation error.
C9_NestedUnknownRejected ==
    LET bm == BaseMapping(call.base0)
    IN  (/\ call.op = "update"
         /\ \E k \in KeySet(call.unflat) \cap KeySet(bm) :
               /\ IsDict(Get(bm, k))
               /\ IsDict(Get(call.unflat, k))
               /\ KeySet(Get(call.unflat, k)) \ KeySet(Get(bm, k)) # {})
        => (~call.res.ok /\ call.res.err = "ValueError")

\* The dotted keys of config that lead into the nested mapping config has
\* under k, at a field that mapping does not set itself.
DottedInto(config, k) ==
    {i \in 1..Len(config.items) :
        /\ ~IsDict(config.items[i].v)
        /\ Len(split(config.items[i].k)) = 2
        /\ split(config.items[i].k)[1] = k
        /\ ~Has(Get(config, k), split(config.items[i].k)[2])}

\* C10: when overrides holds a nested mapping for a subsection and dotted
\* keys into the same subsection, the update handed to merge holds every one
\* of these settings, and the caller's overrides are left as they were.
C10_NestedAndDotted ==
    \A k \in KeySet(call.config0) :
        (/\ call.op = "update"
         /\ IsDict(Get(call.config0, k))
         /\ DottedInto(call.config0, k) # {})
        => /\ \A q \in PathsOf(Get(call.config0, k)) :
                 /\ HasPath(call.unflat, <<k>> \o q)
                 /\ ~IsDict(GetPath(Get(call.config0, k), q))
                    => GetPath(call.unflat, <<k>> \o q)
                       = GetPath(Get(call.config0, k), q)
           /\ \A i \in DottedInto(call.config0, k) :
                 /\ HasPath(call.unflat, split(call.config0.items[i].k))
                 /\ GetPath(call.unflat, split(call.config0.items[i].k))
                    = call.config0.items[i].v
           /\ call.config = call.config0

====
